---- MODULE Spec2Model ----
(***************************************************************************)
(* A model of server-scratch: the gnet and evio reactor callbacks          *)
(* (internal/loop/gnet/engine.go, internal/evio/handler.go) and the        *)
(* request framer IsRequestComplete (internal/http/parser.go).             *)
(*                                                                         *)
(* A byte is a one-character string, a byte slice a sequence of bytes.     *)
(* Indices are 0-based as in Go wherever an index is a value of the code   *)
(* (htIdx, clIdx, ...); only SubSeq is 1-based.                            *)
(***************************************************************************)
EXTENDS Integers, Sequences, FiniteSets, TLC

(***************************************************************************)
(* Byte literals of the source.                                            *)
(***************************************************************************)
crlf == <<"\r", "\n">>

headerTerminator == crlf \o crlf

contentLengthHeader ==
    <<"C","o","n","t","e","n","t","-","L","e","n","g","t","h",":"," ">>

contentLengthHeaderLength == Len(contentLengthHeader)

(***************************************************************************)
(* bytes.Index(s, sep): the 0-based index of the first instance of sep in  *)
(* s, or -1.                                                               *)
(***************************************************************************)
IndexSet(s, sep) ==
    { i \in 0..(Len(s) - Len(sep)) : SubSeq(s, i + 1, i + Len(sep)) = sep }

SetMin(S) == CHOOSE x \in S : \A y \in S : x <= y

Index(s, sep) ==
    LET found == IndexSet(s, sep)
    IN  IF found = {} THEN -1 ELSE SetMin(found)

\* Go's s[from:] and s[from:to] with 0-based, half-open bounds.
SliceFrom(s, from) == SubSeq(s, from + 1, Len(s))

Slice(s, from, to) == SubSeq(s, from + 1, to)

(***************************************************************************)
(* strconv.ParseInt(s, 10, 64) as IsRequestComplete calls it: an optional  *)
(* sign, then decimal digits only; "syntax" for an empty or non-digit      *)
(* value, "range" for a magnitude outside int64.  The magnitude is compared*)
(* digit by digit with the int64 limits; a value of ten digits or more is  *)
(* represented by SatLimit, which exceeds every buffer length of the model.*)
(***************************************************************************)
Digits == {"0","1","2","3","4","5","6","7","8","9"}

DigitVal(ch) ==
    CASE ch = "0" -> 0 [] ch = "1" -> 1 [] ch = "2" -> 2 [] ch = "3" -> 3
      [] ch = "4" -> 4 [] ch = "5" -> 5 [] ch = "6" -> 6 [] ch = "7" -> 7
      [] ch = "8" -> 8 [] ch = "9" -> 9

SatLimit == 1000000000

MaxInt64Digits ==
    <<"9","2","2","3","3","7","2","0","3","6","8","5","4","7","7","5","8","0","7">>

MinInt64Digits ==
    <<"9","2","2","3","3","7","2","0","3","6","8","5","4","7","7","5","8","0","8">>

RECURSIVE StripZeros(_)
StripZeros(d) ==
    IF Len(d) > 1 /\ d[1] = "0" THEN StripZeros(Tail(d)) ELSE d

\* a > b for two digit strings of the same length
RECURSIVE DigitsGreater(_, _)
DigitsGreater(a, b) ==
    IF a = <<>> THEN FALSE
    ELSE IF DigitVal(a[1]) # DigitVal(b[1]) THEN DigitVal(a[1]) > DigitVal(b[1])
    ELSE DigitsGreater(Tail(a), Tail(b))

\* the magnitude d (no leading zeros) exceeds the limit lim
ExceedsLimit(d, lim) ==
    \/ Len(d) > Len(lim)
    \/ Len(d) = Len(lim) /\ DigitsGreater(d, lim)

RECURSIVE DecimalValue(_, _)
DecimalValue(d, acc) ==
    IF d = <<>> THEN acc ELSE DecimalValue(Tail(d), acc * 10 + DigitVal(d[1]))

Magnitude(d) == IF Len(d) > 9 THEN SatLimit ELSE DecimalValue(d, 0)

ParseInt(s) ==
    LET neg    == s # <<>> /\ s[1] = "-"
        signed == s # <<>> /\ s[1] \in {"+", "-"}
        digs   == IF signed THEN Tail(s) ELSE s
        d      == StripZeros(digs)
    IN  IF s = <<>> \/ digs = <<>> \/ \E i \in 1..Len(digs) : digs[i] \notin Digits
          THEN [err |-> "syntax", n |-> 0]
        ELSE IF ExceedsLimit(d, IF neg THEN MinInt64Digits ELSE MaxInt64Digits)
          THEN [err |-> "range", n |-> 0]
        ELSE [err |-> "nil", n |-> IF neg THEN 0 - Magnitude(d) ELSE Magnitude(d)]

(***************************************************************************)
(* IsRequestComplete(data) (bool, error): the framer of parser.go.  Before *)
(* it, two faulty variants: one that wants one byte more than the declared *)
(* length, one that keeps waiting after the terminator of a request with   *)
(* no Content-Length.                                                      *)
(***************************************************************************)
IsRequestComplete_OffByOne(data) ==
    LET htIdx    == Index(data, headerTerminator)
        htEndIdx == htIdx + 4
        clIdx    == Index(data, contentLengthHeader)
        clEndRel == Index(SliceFrom(data, clIdx), crlf)
        clEndIdx == clEndRel + clIdx
        clenbytes == Slice(data, clIdx + contentLengthHeaderLength, clEndIdx)
        parsed   == ParseInt(clenbytes)
    IN  IF htIdx < 0 THEN [complete |-> FALSE, err |-> "nil"]
        ELSE IF clIdx < 0 THEN
            IF htEndIdx = Len(data)
              THEN [complete |-> TRUE, err |-> "nil"]
              ELSE [complete |-> FALSE, err |-> "errBadRequest"]
        ELSE IF clEndRel < 0 THEN [complete |-> FALSE, err |-> "errBadRequest"]
        ELSE IF htEndIdx >= Len(data) THEN [complete |-> FALSE, err |-> "nil"]
        ELSE IF parsed.err # "nil" THEN [complete |-> FALSE, err |-> parsed.err]
        ELSE IF Len(data) - htEndIdx <= parsed.n THEN [complete |-> FALSE, err |-> "nil"]
        ELSE [complete |-> TRUE, err |-> "nil"]

IsRequestComplete_WaitsForBody(data) ==
    LET htIdx    == Index(data, headerTerminator)
        htEndIdx == htIdx + 4
        clIdx    == Index(data, contentLengthHeader)
        clEndRel == Index(SliceFrom(data, clIdx), crlf)
        clEndIdx == clEndRel + clIdx
        clenbytes == Slice(data, clIdx + contentLengthHeaderLength, clEndIdx)
        parsed   == ParseInt(clenbytes)
    IN  IF htIdx < 0 THEN [complete |-> FALSE, err |-> "nil"]
        ELSE IF clIdx < 0 THEN
            IF htEndIdx = Len(data)
              THEN [complete |-> FALSE, err |-> "nil"]
              ELSE [complete |-> FALSE, err |-> "errBadRequest"]
        ELSE IF clEndRel < 0 THEN [complete |-> FALSE, err |-> "errBadRequest"]
        ELSE IF htEndIdx >= Len(data) THEN [complete |-> FALSE, err |-> "nil"]
        ELSE IF parsed.err # "nil" THEN [complete |-> FALSE, err |-> parsed.err]
        ELSE IF Len(data) - htEndIdx < parsed.n THEN [complete |-> FALSE, err |-> "nil"]
        ELSE [complete |-> TRUE, err |-> "nil"]

IsRequestComplete(data) ==
    LET htIdx    == Index(data, headerTerminator)
        htEndIdx == htIdx + 4
        clIdx    == Index(data, contentLengthHeader)
        clEndRel == Index(SliceFrom(data, clIdx), crlf)
        clEndIdx == clEndRel + clIdx
        clenbytes == Slice(data, clIdx + contentLengthHeaderLength, clEndIdx)
        parsed   == ParseInt(clenbytes)
    IN  IF htIdx < 0 THEN [complete |-> FALSE, err |-> "nil"]
        ELSE IF clIdx < 0 THEN
            IF htEndIdx = Len(data)
              THEN [complete |-> TRUE, err |-> "nil"]
              ELSE [complete |-> FALSE, err |-> "errBadRequest"]
        ELSE IF clEndRel < 0 THEN [complete |-> FALSE, err |-> "errBadRequest"]
        ELSE IF htEndIdx >= Len(data) THEN [complete |-> FALSE, err |-> "nil"]
        ELSE IF parsed.err # "nil" THEN [complete |-> FALSE, err |-> parsed.err]
        ELSE IF Len(data) - htEndIdx < parsed.n THEN [complete |-> FALSE, err |-> "nil"]
        ELSE [complete |-> TRUE, err |-> "nil"]

\* The three framing verdicts as the callbacks read the pair (complete, err).
Verdict(r) ==
    IF r.err # "nil" THEN "MALFORMED"
    ELSE IF r.complete THEN "COMPLETE" ELSE "INCOMPLETE"

(***************************************************************************)
(* isRequestComplete of handler.go: the evio backend's own copy of the     *)
(* framer.                                                                 *)
(***************************************************************************)
isRequestComplete(data) ==
    LET htIdx    == Index(data, headerTerminator)
        htEndIdx == htIdx + 4
        clIdx    == Index(data, contentLengthHeader)
        clEndRel == Index(SliceFrom(data, clIdx), crlf)
        clEndIdx == clEndRel + clIdx
        clenbytes == Slice(data, clIdx + contentLengthHeaderLength, clEndIdx)
        parsed   == ParseInt(clenbytes)
    IN  IF htIdx < 0 THEN [complete |-> FALSE, err |-> "nil"]
        ELSE IF clIdx < 0 THEN
            IF htEndIdx = Len(data)
              THEN [complete |-> TRUE, err |-> "nil"]
              ELSE [complete |-> FALSE, err |-> "errBadRequest"]
        ELSE IF clEndRel < 0 THEN [complete |-> FALSE, err |-> "errBadRequest"]
        ELSE IF htEndIdx >= Len(data) THEN [complete |-> FALSE, err |-> "nil"]
        ELSE IF parsed.err # "nil" THEN [complete |-> FALSE, err |-> parsed.err]
        ELSE IF Len(data) - htEndIdx < parsed.n THEN [complete |-> FALSE, err |-> "nil"]
        ELSE [complete |-> TRUE, err |-> "nil"]

(***************************************************************************)
(* evio.InputStream as the callbacks use it.  b is the stream's stored     *)
(* buffer.  Begin appends the packet to a non-empty stored buffer and      *)
(* returns the working bytes (the packet itself when nothing is stored);   *)
(* End stores the working bytes.                                           *)
(***************************************************************************)
Begin(b, packet) ==
    IF Len(b) > 0
      THEN [b |-> b \o packet, data |-> b \o packet]
      ELSE [b |-> b, data |-> packet]

\* a faulty End that stores nothing
End_NotStored(b, data) == b

End(b, data) ==
    IF Len(data) > 0
      THEN (IF Len(data) # Len(b) THEN data ELSE b)
      ELSE <<>>

(***************************************************************************)
(* State.                                                                  *)
(***************************************************************************)
VARIABLES
    backend,    \* "gnet" (Engine) or "evio" (NewHandler): which reactor runs
    server,     \* "init" before the serving callback, "running", "stopped"
    ctxDone,    \* ctx.Done() is closed: the shutdown signal
    conn,       \* per connection: "absent", "open", "closing"
    stream,     \* per connection: the InputStream's stored buffer
    last,       \* what the last callback returned, and for a Readable one the
                \* bytes it framed (data) and whether it joined the chunk to
                \* stored bytes (joined)
    delivered,  \* history: bytes delivered per connection since its last
                \* dispatched request (or since open)
    fed,        \* history: non-empty chunks delivered per connection since
                \* its last dispatched request (or since open)
    openedDone, \* history: the connection was opened with the signal set
    served,     \* history: the handler ran for the connection since open
    req,        \* client byte stream of the fragmentation harness
    pos         \* bytes of req delivered so far

vars == <<backend, server, ctxDone, conn, stream, last,
          delivered, fed, openedDone, served, req, pos>>

Conns == {1, 2}

\* the connections Spec opens
Driven == {1}

Backends == {"gnet", "evio"}

\* where the dispatch of a COMPLETE buffer fails, if it does: decoding the
\* request, reading its body (evio only), serializing the response
Fails == {"none", "decode", "body", "write"}

NoCallback ==
    [kind |-> "none", conn |-> 0, action |-> "None", out |-> "nil",
     verdict |-> "-", done |-> FALSE, joined |-> FALSE, data |-> <<>>,
     handled |-> FALSE, dispatched |-> FALSE]

\* The record of a callback other than Readable.
Returned(kind, c, out, action) ==
    [kind |-> kind, conn |-> c, action |-> action, out |-> out,
     verdict |-> "-", done |-> ctxDone, joined |-> FALSE, data |-> <<>>,
     handled |-> FALSE, dispatched |-> FALSE]

\* What the reactor does with the action a callback returned.
ServerAfter(action) == IF action = "Shutdown" THEN "stopped" ELSE server

ConnAfter(c, action) ==
    IF action = "Close" THEN [conn EXCEPT ![c] = "closing"] ELSE conn

(***************************************************************************)
(* Inputs of the model.                                                    *)
(***************************************************************************)
reqLine == <<"G","E","T"," ","/"," ","H","T","T","P","/","1",".","1","\r","\n">>

\* "Content-Length: <value>\r\n"
ContentLengthLine(value) == contentLengthHeader \o value \o crlf

\* a body of n bytes
BodyBytes == <<"a", "b", "c", "d", "e">>

Body(n) == SubSeq(BodyBytes, 1, n)

\* The chunks a Readable callback is given in Spec: the empty chunk, a whole
\* body-less request, and pieces of requests.
Chunks ==
    { <<>>, reqLine \o crlf, reqLine, crlf, ContentLengthLine(<<"1">>),
      crlf \o Body(2) }

\* Spec lets a connection accumulate at most MaxChunks non-empty chunks.
MaxChunks == 3

\* What a Readable callback returns and leaves behind: the fields of last
\* (handled: the handler ran; dispatched: the response was serialized too),
\* and the stream's stored buffer b.
Outcome(c, out, action, verdict, data, handled, dispatched, b) ==
    [kind |-> "Readable", conn |-> c, action |-> action, out |-> out,
     verdict |-> verdict, done |-> ctxDone, data |-> data, handled |-> handled,
     dispatched |-> dispatched, b |-> b]

\* c.SetContext(&evio.InputStream{}) after a dispatch: the stored buffer of
\* the connection's new stream, b being the old stream's.  (Skipped: the
\* faulty variant that keeps the old stream.)
ResetContext_Skipped(b) == b

ResetContext(b) == <<>>

\* The select on ctx.Done() of OnOpened.  (Accepts: the faulty variant that
\* ignores the signal.)
OnOpenedAction_Accepts(done) == "None"

OnOpenedAction(done) == IF done THEN "Close" ELSE "None"

(***************************************************************************)
(* The gnet backend: Engine's callbacks.                                   *)
(***************************************************************************)
\* OnInitComplete fires on server up (one time)
OnInitComplete ==
    /\ backend = "gnet"
    /\ server = "init"
    /\ LET action == IF ctxDone THEN "Shutdown" ELSE "None"
       IN  /\ last' = Returned("Init", 0, "nil", action)
           /\ server' = IF action = "Shutdown" THEN "stopped" ELSE "running"
    /\ UNCHANGED <<backend, ctxDone, conn, stream, delivered, fed, openedDone,
                   served, req, pos>>

\* OnOpened fires on opening new connections (per connection)
OnOpened(c) ==
    /\ backend = "gnet"
    /\ server = "running"
    /\ conn[c] = "absent"
    /\ LET action == OnOpenedAction(ctxDone)
       IN  /\ last' = Returned("Open", c, "nil", action)
           /\ conn' = [conn EXCEPT ![c] = IF action = "Close" THEN "closing" ELSE "open"]
    /\ stream' = [stream EXCEPT ![c] = <<>>]
    /\ delivered' = [delivered EXCEPT ![c] = <<>>]
    /\ fed' = [fed EXCEPT ![c] = 0]
    /\ openedDone' = [openedDone EXCEPT ![c] = ctxDone]
    /\ served' = [served EXCEPT ![c] = FALSE]
    /\ UNCHANGED <<backend, server, ctxDone, req, pos>>

\* OnClosed fires on closing connections (per connection): after a Close
\* action, or when the peer closes or the connection fails.
OnClosed(c) ==
    /\ backend = "gnet"
    /\ server = "running"
    /\ conn[c] \in {"open", "closing"}
    /\ LET action == IF ctxDone THEN "Shutdown" ELSE "None"
       IN  /\ last' = Returned("Closed", c, "nil", action)
           /\ server' = ServerAfter(action)
    /\ conn' = [conn EXCEPT ![c] = "absent"]
    /\ stream' = [stream EXCEPT ![c] = <<>>]
    /\ delivered' = [delivered EXCEPT ![c] = <<>>]
    /\ UNCHANGED <<backend, ctxDone, fed, openedDone, served, req, pos>>

\* React's return for an empty chunk.  (ClosesWhenDone: a variant that
\* polls the signal first.)
EmptyChunkOutcome_ClosesWhenDone(c) ==
    Outcome(c, "nil", IF ctxDone THEN "Close" ELSE "None", "-", <<>>, FALSE,
            FALSE, stream[c])

EmptyChunkOutcome(c) ==
    Outcome(c, "nil", "None", "-", <<>>, FALSE, FALSE, stream[c])

\* React's "return nil, gnet.Close" after an error of the framer, of
\* ReadRequest or of WriteToBuf.  (EmitsAnyway: a faulty variant that sends
\* the response buffer and keeps the connection.)
ErrorReturn_EmitsAnyway(c, verdict, data, handled, b) ==
    Outcome(c, "response", "None", verdict, data, handled, FALSE, b)

ErrorReturn(c, verdict, data, handled, b) ==
    Outcome(c, "nil", "Close", verdict, data, handled, FALSE, b)

\* React fires on data being sent to a connection; fail is where the dispatch
\* of a COMPLETE buffer fails (ReadRequest, WriteToBuf), if it does.
ReactOutcome(in, c, fail) ==
    IF Len(in) = 0
      THEN EmptyChunkOutcome(c)
    ELSE
      LET begun == Begin(stream[c], in)
          data  == begun.data
          res   == IsRequestComplete(data)
          ended == End(begun.b, data)
      IN  IF res.err # "nil"
            THEN ErrorReturn(c, Verdict(res), data, FALSE, begun.b)
          ELSE IF ~res.complete
            THEN Outcome(c, "nil", "None", Verdict(res), data, FALSE, FALSE, ended)
          ELSE IF fail = "decode"
            THEN ErrorReturn(c, Verdict(res), data, FALSE, ended)
          ELSE IF fail = "write"
            THEN ErrorReturn(c, Verdict(res), data, TRUE, ended)
          ELSE IF ctxDone
            THEN Outcome(c, "response", "Close", Verdict(res), data, TRUE, TRUE, ended)
          ELSE Outcome(c, "response", "None", Verdict(res), data, TRUE, TRUE,
                       ResetContext(ended))

\* A faulty variant of Readable, below, with one InputStream shared by all
\* connections instead of one per connection context.
Readable_SharedStream(in, c, o) ==
    /\ server = "running"
    /\ conn[c] = "open"
    /\ last' = [f \in DOMAIN NoCallback |->
                   IF f = "joined" THEN Len(in) > 0 /\ Len(stream[c]) > 0 ELSE o[f]]
    /\ stream' = [x \in Conns |-> o.b]
    /\ conn' = ConnAfter(c, o.action)
    /\ delivered' = [delivered EXCEPT ![c] =
                        IF o.dispatched THEN <<>> ELSE @ \o in]
    /\ fed' = [fed EXCEPT ![c] = IF o.dispatched THEN 0
                                  ELSE IF Len(in) = 0 THEN @ ELSE @ + 1]
    /\ served' = [served EXCEPT ![c] = @ \/ o.handled]
    /\ UNCHANGED <<backend, server, ctxDone, openedDone>>

\* The reactor's state after a Readable callback with outcome o on chunk in.
Readable(in, c, o) ==
    /\ server = "running"
    /\ conn[c] = "open"
    /\ last' = [f \in DOMAIN NoCallback |->
                   IF f = "joined" THEN Len(in) > 0 /\ Len(stream[c]) > 0 ELSE o[f]]
    /\ stream' = [stream EXCEPT ![c] = o.b]
    /\ conn' = ConnAfter(c, o.action)
    /\ delivered' = [delivered EXCEPT ![c] =
                        IF o.dispatched THEN <<>> ELSE @ \o in]
    /\ fed' = [fed EXCEPT ![c] = IF o.dispatched THEN 0
                                  ELSE IF Len(in) = 0 THEN @ ELSE @ + 1]
    /\ served' = [served EXCEPT ![c] = @ \/ o.handled]
    /\ UNCHANGED <<backend, server, ctxDone, openedDone>>

React(in, c, fail) ==
    /\ backend = "gnet"
    /\ Readable(in, c, ReactOutcome(in, c, fail))
    /\ UNCHANGED <<req, pos>>

\* The select on ctx.Done() of Tick.  (Idle: the faulty variant that never
\* asks for shutdown.)
TickAction_Idle(done) == "None"

TickAction(done) == IF done THEN "Shutdown" ELSE "None"

\* Tick fires once a second
Tick ==
    /\ backend = "gnet"
    /\ server = "running"
    /\ LET action == TickAction(ctxDone)
       IN  /\ last' = Returned("Tick", 0, "nil", action)
           /\ server' = ServerAfter(action)
    /\ UNCHANGED <<backend, ctxDone, conn, stream, delivered, fed, openedDone,
                   served, req, pos>>

(***************************************************************************)
(* The evio backend: the callbacks NewHandler registers.                   *)
(***************************************************************************)
\* Serving fires on server up (one time)
Serving ==
    /\ backend = "evio"
    /\ server = "init"
    /\ LET action == IF ctxDone THEN "Shutdown" ELSE "None"
       IN  /\ last' = Returned("Init", 0, "nil", action)
           /\ server' = IF action = "Shutdown" THEN "stopped" ELSE "running"
    /\ UNCHANGED <<backend, ctxDone, conn, stream, delivered, fed, openedDone,
                   served, req, pos>>

\* Opened fires on opening new connections (per connection)
Opened(c) ==
    /\ backend = "evio"
    /\ server = "running"
    /\ conn[c] = "absent"
    /\ LET action == IF ctxDone THEN "Close" ELSE "None"
       IN  /\ last' = Returned("Open", c, "nil", action)
           /\ conn' = [conn EXCEPT ![c] = IF action = "Close" THEN "closing" ELSE "open"]
    /\ stream' = [stream EXCEPT ![c] = <<>>]
    /\ delivered' = [delivered EXCEPT ![c] = <<>>]
    /\ fed' = [fed EXCEPT ![c] = 0]
    /\ openedDone' = [openedDone EXCEPT ![c] = ctxDone]
    /\ served' = [served EXCEPT ![c] = FALSE]
    /\ UNCHANGED <<backend, server, ctxDone, req, pos>>

\* Closed fires on closing connections (per connection)
Closed(c) ==
    /\ backend = "evio"
    /\ server = "running"
    /\ conn[c] \in {"open", "closing"}
    /\ LET action == IF ctxDone THEN "Shutdown" ELSE "None"
       IN  /\ last' = Returned("Closed", c, "nil", action)
           /\ server' = ServerAfter(action)
    /\ conn' = [conn EXCEPT ![c] = "absent"]
    /\ stream' = [stream EXCEPT ![c] = <<>>]
    /\ delivered' = [delivered EXCEPT ![c] = <<>>]
    /\ UNCHANGED <<backend, ctxDone, fed, openedDone, served, req, pos>>

\* Data fires on data being sent to a connection; fail is where the dispatch
\* of a COMPLETE buffer fails (ReadRequest, readall, res.Write), if it does.
DataOutcome(c, in, fail) ==
    IF Len(in) = 0
      THEN Outcome(c, "nil", "None", "-", <<>>, FALSE, FALSE, stream[c])
    ELSE
      LET begun == Begin(stream[c], in)
          data  == begun.data
          res   == isRequestComplete(data)
          ended == End(begun.b, data)
      IN  IF res.err # "nil"
            THEN Outcome(c, "nil", "Close", Verdict(res), data, FALSE, FALSE, begun.b)
          ELSE IF ~res.complete
            THEN Outcome(c, "nil", "None", Verdict(res), data, FALSE, FALSE, ended)
          ELSE IF fail \in {"decode", "body"}
            THEN Outcome(c, "nil", "Close", Verdict(res), data, FALSE, FALSE, ended)
          ELSE IF fail = "write"
            THEN Outcome(c, "nil", "Close", Verdict(res), data, TRUE, FALSE, ended)
          ELSE IF ctxDone
            THEN Outcome(c, "nil", "Close", Verdict(res), data, TRUE, TRUE, ended)
          ELSE Outcome(c, "response", "None", Verdict(res), data, TRUE, TRUE,
                       ResetContext(ended))

Data(c, in, fail) ==
    /\ backend = "evio"
    /\ Readable(in, c, DataOutcome(c, in, fail))
    /\ UNCHANGED <<req, pos>>

\* the handler's Tick fires once a second
HandlerTick ==
    /\ backend = "evio"
    /\ server = "running"
    /\ LET action == IF ctxDone THEN "Shutdown" ELSE "None"
       IN  /\ last' = Returned("Tick", 0, "nil", action)
           /\ server' = ServerAfter(action)
    /\ UNCHANGED <<backend, ctxDone, conn, stream, delivered, fed, openedDone,
                   served, req, pos>>

(***************************************************************************)
(* The environment cancels the context: the shutdown signal is set, once.  *)
(***************************************************************************)
Cancel ==
    /\ ~ctxDone
    /\ server # "stopped"
    /\ ctxDone' = TRUE
    /\ UNCHANGED <<backend, server, conn, stream, last, delivered, fed,
                   openedDone, served, req, pos>>

(***************************************************************************)
(* Spec: one reactor, its connections, chunks drawn from Chunks.           *)
(***************************************************************************)
Init ==
    /\ backend \in Backends
    /\ server = "init"
    /\ ctxDone = FALSE
    /\ conn = [c \in Conns |-> "absent"]
    /\ stream = [c \in Conns |-> <<>>]
    /\ last = NoCallback
    /\ delivered = [c \in Conns |-> <<>>]
    /\ fed = [c \in Conns |-> 0]
    /\ openedDone = [c \in Conns |-> FALSE]
    /\ served = [c \in Conns |-> FALSE]
    /\ req = <<>>
    /\ pos = 0

\* the chunks Spec may deliver on connection c
Deliverable(c) == { in \in Chunks : Len(in) = 0 \/ fed[c] < MaxChunks }

Next ==
    \/ OnInitComplete
    \/ \E c \in Driven : OnOpened(c)
    \/ \E c \in Driven : OnClosed(c)
    \/ \E c \in Driven : \E in \in Deliverable(c) : \E fail \in Fails \ {"body"} :
          React(in, c, fail)
    \/ Tick
    \/ Serving
    \/ \E c \in Driven : Opened(c)
    \/ \E c \in Driven : Closed(c)
    \/ \E c \in Driven : \E in \in Deliverable(c) : \E fail \in Fails :
          Data(c, in, fail)
    \/ HandlerTick
    \/ Cancel

Spec == Init /\ [][Next]_vars

(***************************************************************************)
(* SpecStream: a client sends the byte stream req on connection 1 of a     *)
(* running reactor, and the reactor delivers it in chunks of every size:   *)
(* each step is one Readable callback on the next k undelivered bytes.     *)
(***************************************************************************)
\* request heads: the request line alone, or with one Content-Length line
ContentLengthValues ==
    { <<"0">>, <<"1">>, <<"2">>, <<"1","2","a">>, <<"-","1">>, <<"+","1">>,
      <<>>, <<" ","1">>,
      <<"9","2","2","3","3","7","2","0","3","6","8","5","4","7","7","5","8","0","8">> }

Heads ==
    {reqLine} \cup { reqLine \o ContentLengthLine(v) : v \in ContentLengthValues }

\* the longest plain body of a stream
MaxBody == 3

\* what follows the header terminator: nothing or a plain body, and after
\* two of the heads also bytes that hold the Content-Length token themselves
Tails == { Body(n) : n \in 0..MaxBody }

TokenTails ==
    { contentLengthHeader \o <<"1">>, ContentLengthLine(<<"1">>) \o Body(1) }

Streams ==
    { h \o crlf \o t : h \in Heads, t \in Tails }
      \cup { h \o crlf \o t :
               h \in {reqLine, reqLine \o ContentLengthLine(<<"1">>)},
               t \in TokenTails }

InitStream ==
    /\ backend \in Backends
    /\ server = "running"
    /\ ctxDone = FALSE
    /\ conn = [c \in Conns |-> IF c = 1 THEN "open" ELSE "absent"]
    /\ stream = [c \in Conns |-> <<>>]
    /\ last = NoCallback
    /\ delivered = [c \in Conns |-> <<>>]
    /\ fed = [c \in Conns |-> 0]
    /\ openedDone = [c \in Conns |-> FALSE]
    /\ served = [c \in Conns |-> FALSE]
    /\ req \in Streams
    /\ pos = 0

\* the next k bytes of req
NextBytes(k) == SubSeq(req, pos + 1, pos + k)

FeedReact(k) ==
    /\ backend = "gnet"
    /\ Readable(NextBytes(k), 1, ReactOutcome(NextBytes(k), 1, "none"))
    /\ pos' = pos + k
    /\ UNCHANGED req

FeedData(k) ==
    /\ backend = "evio"
    /\ Readable(NextBytes(k), 1, DataOutcome(1, NextBytes(k), "none"))
    /\ pos' = pos + k
    /\ UNCHANGED req

NextStream ==
    \/ \E k \in 1..(Len(req) - pos) : FeedReact(k)
    \/ \E k \in 1..(Len(req) - pos) : FeedData(k)

SpecStream == InitStream /\ [][NextStream]_vars

(***************************************************************************)
(* SpecLive: Spec with the scheduling the reactors guarantee: the serving  *)
(* callback runs once the server is up, and the tick fires every second.   *)
(***************************************************************************)
SpecLive ==
    /\ Spec
    /\ WF_vars(OnInitComplete) /\ WF_vars(Tick)
    /\ WF_vars(Serving) /\ WF_vars(HandlerTick)

(***************************************************************************)
(* SpecPair: a running reactor with both connections, the shutdown signal  *)
(* not set; the callbacks of the two connections interleave freely.        *)
(***************************************************************************)
PairChunks == { reqLine \o crlf, reqLine, crlf \o Body(2) }

InitPair ==
    /\ backend \in Backends
    /\ server = "running"
    /\ ctxDone = FALSE
    /\ conn = [c \in Conns |-> "absent"]
    /\ stream = [c \in Conns |-> <<>>]
    /\ last = NoCallback
    /\ delivered = [c \in Conns |-> <<>>]
    /\ fed = [c \in Conns |-> 0]
    /\ openedDone = [c \in Conns |-> FALSE]
    /\ served = [c \in Conns |-> FALSE]
    /\ req = <<>>
    /\ pos = 0

\* the chunks SpecPair may deliver on connection c
DeliverablePair(c) == { in \in PairChunks : fed[c] < MaxChunks }

NextPair ==
    \/ \E c \in Conns : OnOpened(c)
    \/ \E c \in Conns : OnClosed(c)
    \/ \E c \in Conns : \E in \in DeliverablePair(c) :
          \E fail \in {"none", "decode"} : React(in, c, fail)
    \/ \E c \in Conns : Opened(c)
    \/ \E c \in Conns : Closed(c)
    \/ \E c \in Conns : \E in \in DeliverablePair(c) :
          \E fail \in {"none", "decode"} : Data(c, in, fail)

SpecPair == InitPair /\ [][NextPair]_vars

(***************************************************************************)
(* The claims.  What a claim says of "a buffer" is read from last.data,    *)
(* the accumulated bytes the last Readable callback framed.                *)
(***************************************************************************)
Framed == last.kind = "Readable" /\ last.verdict # "-"

HasTerminator(data) == Index(data, headerTerminator) >= 0

\* the number of bytes after the first header terminator
BytesAfterTerminator(data) == Len(data) - (Index(data, headerTerminator) + 4)

\* the bytes before the first header terminator
HeaderBytes(data) == Slice(data, 0, Index(data, headerTerminator))

HasLengthHeader(data) ==
    HasTerminator(data) /\ Index(HeaderBytes(data), contentLengthHeader) >= 0

\* the value of the first Content-Length header: the bytes up to the line break
LengthValue(data) ==
    LET from == Index(data, contentLengthHeader) + contentLengthHeaderLength
    IN  Slice(data, from, from + Index(SliceFrom(data, from), crlf))

\* a non-empty string of decimal digits that fits an int64
PlainDecimal(v) ==
    /\ v # <<>>
    /\ \A i \in 1..Len(v) : v[i] \in Digits
    /\ ~ExceedsLimit(StripZeros(v), MaxInt64Digits)

\* the well-formed requests among the streams: no Content-Length and no
\* body, or Content-Length: n and a body of exactly n bytes
WellFormedRequests ==
    {reqLine \o crlf}
      \cup { reqLine \o ContentLengthLine(<<"0">>) \o crlf \o Body(0),
             reqLine \o ContentLengthLine(<<"1">>) \o crlf \o Body(1),
             reqLine \o ContentLengthLine(<<"2">>) \o crlf \o Body(2) }

\* C1: a well-formed request delivered in chunks of any sizes is framed
\* INCOMPLETE at every chunk but the last and COMPLETE, over the whole
\* request's bytes, at the last, as when it is delivered in one chunk.
C1_ChunkedLikeWhole ==
    (Framed /\ req \in WellFormedRequests) =>
        IF pos < Len(req)
          THEN last.verdict = "INCOMPLETE"
          ELSE /\ last.verdict = "COMPLETE"
               /\ last.data = req
               /\ last.verdict = Verdict(IsRequestComplete(req))

\* C7: a buffer with a header terminator, no Content-Length token before
\* it and at least one byte after it is framed MALFORMED.
C7_BodyWithoutLengthIsMalformed ==
    (/\ Framed
     /\ HasTerminator(last.data)
     /\ ~HasLengthHeader(last.data)
     /\ BytesAfterTerminator(last.data) >= 1)
        => last.verdict = "MALFORMED"

\* C8: a buffer with a header terminator and a Content-Length header whose
\* value holds a non-digit character is framed MALFORMED, however many
\* bytes follow the terminator (none included).
C8_NonDigitLengthIsMalformed ==
    (/\ Framed
     /\ HasLengthHeader(last.data)
     /\ \E i \in 1..Len(LengthValue(last.data)) :
            LengthValue(last.data)[i] \notin Digits)
        => last.verdict = "MALFORMED"

\* C9: a buffer with a header terminator and Content-Length: N, N >= 1, is
\* framed INCOMPLETE while fewer than N bytes follow the terminator and
\* COMPLETE once at least N do; over the callbacks that deliver such a
\* request the handler runs at the COMPLETE one, which resets the buffer,
\* and at no earlier one.
C9_FramedByDeclaredLength ==
    (/\ Framed
     /\ HasLengthHeader(last.data)
     /\ PlainDecimal(LengthValue(last.data))
     /\ DecimalValue(StripZeros(LengthValue(last.data)), 0) >= 1)
        => /\ last.verdict =
                IF BytesAfterTerminator(last.data)
                     < DecimalValue(StripZeros(LengthValue(last.data)), 0)
                  THEN "INCOMPLETE" ELSE "COMPLETE"
           /\ last.verdict = "INCOMPLETE"
                => ~last.handled /\ last.action = "None" /\ last.out = "nil"
           /\ last.verdict = "COMPLETE" => last.dispatched /\ stream[1] = <<>>
           /\ Len(last.data) = pos => (served[1] <=> last.verdict = "COMPLETE")

C9_Witness ==
    /\ Framed
    /\ HasLengthHeader(last.data)
    /\ LengthValue(last.data) = <<"2">>
    /\ last.verdict = "COMPLETE"
    /\ last.dispatched
    /\ BytesAfterTerminator(last.data) = 2
    /\ last.joined
    /\ Len(last.data) = pos

\* C10: a buffer without a header terminator is framed INCOMPLETE; a buffer
\* without a Content-Length token whose first header terminator ends the
\* buffer is framed COMPLETE.
C10_TerminatorCompletesBodyless ==
    Framed =>
        /\ ~HasTerminator(last.data) => last.verdict = "INCOMPLETE"
        /\ (/\ HasTerminator(last.data)
            /\ Index(last.data, contentLengthHeader) < 0
            /\ BytesAfterTerminator(last.data) = 0)
              => last.verdict = "COMPLETE"

C10_Witness ==
    /\ Framed
    /\ last.verdict = "COMPLETE"
    /\ Index(last.data, contentLengthHeader) < 0
    /\ BytesAfterTerminator(last.data) = 0
    /\ last.joined

\* C2: between callbacks the session buffer of an open connection is the
\* in-order concatenation of the bytes delivered on it since its last
\* dispatched request (or since it was opened).
C2_BufferIsWhatWasDelivered ==
    \A c \in Conns : conn[c] = "open" => stream[c] = delivered[c]

C2_Witness ==
    /\ conn[1] = "open"
    /\ fed[1] >= 2
    /\ last.kind = "Readable"
    /\ last.joined
    /\ stream[1] = last.data
    /\ served[1]

\* the last callback framed a COMPLETE buffer and dispatched it
Dispatched(c) ==
    /\ last.kind = "Readable"
    /\ last.conn = c
    /\ last.verdict = "COMPLETE"
    /\ last.dispatched

\* the bytes of a buffer beyond its header terminator and the n body bytes
\* its Content-Length header declares
ExtraBytes(data) ==
    IF HasLengthHeader(data) /\ PlainDecimal(LengthValue(data))
      THEN SliceFrom(data,
                     Len(data) - BytesAfterTerminator(data)
                       + DecimalValue(StripZeros(LengthValue(data)), 0))
      ELSE <<>>

\* s ends with the bytes t
EndsWith(s, t) ==
    Len(s) >= Len(t) /\ SubSeq(s, Len(s) - Len(t) + 1, Len(s)) = t

\* C3 as stated: when a COMPLETE buffer holds extra bytes beyond the
\* declared Content-Length, the extra bytes are still in the session buffer
\* after the request is dispatched.
C3_ExtraBytesKept ==
    \A c \in Conns :
        (Dispatched(c) /\ ExtraBytes(last.data) # <<>>)
            => EndsWith(stream[c], ExtraBytes(last.data))

\* C3 as amended: when a COMPLETE buffer holds extra bytes beyond the
\* declared Content-Length and is dispatched while shutdown is not
\* signaled, the session buffer is empty after the dispatch: the extra
\* bytes are discarded with the request's.
C3_ExtraBytesDiscarded ==
    \A c \in Conns :
        (Dispatched(c) /\ ~last.done /\ ExtraBytes(last.data) # <<>>)
            => stream[c] = <<>> /\ delivered[c] = <<>>

C3_Witness ==
    /\ Dispatched(1)
    /\ ~last.done
    /\ ExtraBytes(last.data) = SubSeq(Body(2), 2, 2)
    /\ conn[1] = "open"

\* C4: after a Readable callback that framed COMPLETE and dispatched while
\* shutdown was not signaled the session buffer is empty, and the next
\* Readable callback on the connection frames its chunk alone, as on a
\* freshly opened connection.
C4_CleanAfterDispatch ==
    /\ [](\A c \in Conns : (Dispatched(c) /\ ~last.done) => stream[c] = <<>>)
    /\ [][\A c \in Conns : \A in \in Chunks \ {<<>>} : \A fail \in Fails :
            (Dispatched(c) /\ ~last.done
               /\ (React(in, c, fail) \/ Data(c, in, fail)))
              => /\ last'.data = in
                 /\ last'.verdict = Verdict(IsRequestComplete(in))]_vars

C4_Witness ==
    /\ last.kind = "Readable"
    /\ last.conn = 1
    /\ last.verdict = "INCOMPLETE"
    /\ ~last.joined
    /\ served[1]
    /\ stream[1] = reqLine

\* C5: in both backends, a Readable callback that frames COMPLETE and
\* dispatches while shutdown is signaled returns the response bytes and
\* the Close action.
C5_ResponseBeforeClose ==
    (Framed /\ last.verdict = "COMPLETE" /\ last.dispatched /\ last.done)
        => last.out = "response" /\ last.action = "Close"

\* C6: an Open callback that runs with the shutdown signal set returns
\* Close and no output, and a connection opened with the signal set never
\* becomes open for data and never has a request handled.
C6_NoOpenAfterShutdown ==
    /\ (last.kind = "Open" /\ last.done)
          => last.action = "Close" /\ last.out = "nil"
    /\ \A c \in Conns :
          (openedDone[c] /\ conn[c] # "absent")
              => conn[c] = "closing" /\ ~served[c]

C6_Witness ==
    /\ last.kind = "Open"
    /\ last.done
    /\ openedDone[1]
    /\ conn[1] = "closing"

\* C11: a Readable callback that ends in a MALFORMED verdict, a decode
\* failure or a response-serialization failure returns Close and no
\* bytes, and the connection is closing after it.
C11_FailureClosesSilently ==
    (Framed /\ (last.verdict = "MALFORMED"
                  \/ (last.verdict = "COMPLETE" /\ ~last.dispatched)))
        => /\ last.action = "Close"
           /\ last.out = "nil"
           /\ conn[last.conn] = "closing"

C11_Witness ==
    /\ Framed
    /\ last.verdict = "COMPLETE"
    /\ last.handled
    /\ ~last.dispatched
    /\ conn[1] = "closing"

\* a callback of connection a: the step is its Open, Readable or Closed
CallbackOn(a) ==
    \/ OnOpened(a) \/ OnClosed(a) \/ Opened(a) \/ Closed(a)
    \/ \E in \in PairChunks : \E fail \in Fails :
          React(in, a, fail) \/ Data(a, in, fail)

\* C12: with the shutdown signal not set, a callback on connection a,
\* whatever its outcome, leaves the session buffer, the open/closed status
\* and the pending verdict of every other connection b unchanged.
C12_ConnectionsIsolated ==
    [][\A a \in Conns : \A b \in Conns \ {a} :
          (~ctxDone /\ CallbackOn(a))
            => /\ stream'[b] = stream[b]
               /\ conn'[b] = conn[b]
               /\ Verdict(IsRequestComplete(stream'[b]))
                    = Verdict(IsRequestComplete(stream[b]))
               /\ delivered'[b] = delivered[b]
               /\ served'[b] = served[b]]_vars

C12_Witness ==
    /\ last.kind = "Readable"
    /\ last.conn = 1
    /\ last.verdict = "MALFORMED"
    /\ conn[1] = "closing"
    /\ conn[2] = "open"
    /\ stream[2] = reqLine

\* C14 as stated: every callback that runs with the shutdown signal set
\* returns Close or Shutdown.
C14_EveryCallbackClosesWhenDone ==
    (last.kind # "none" /\ last.done) => last.action \in {"Close", "Shutdown"}

\* C14 as amended: with the shutdown signal set, Init, Closed and Tick
\* return Shutdown, Open returns Close, and a Readable callback returns
\* Close unless its chunk is empty or its verdict INCOMPLETE, when it
\* returns the no-op action.
C14_PolledCallbacksCloseWhenDone ==
    (last.kind # "none" /\ last.done) =>
        /\ last.kind \in {"Init", "Closed", "Tick"} => last.action = "Shutdown"
        /\ last.kind = "Open" => last.action = "Close"
        /\ last.kind = "Readable" =>
              last.action = IF last.verdict \in {"-", "INCOMPLETE"}
                              THEN "None" ELSE "Close"

C14_Witness ==
    /\ last.kind = "Readable"
    /\ last.done
    /\ last.verdict = "INCOMPLETE"
    /\ last.action = "None"
    /\ conn[1] = "open"

\* C15: once the shutdown signal is set and the tick keeps firing, the
\* reactor is eventually given Shutdown; an Init that sees the signal
\* returns Shutdown; the signal, once set, stays set.
C15_ShutdownReachesReactor ==
    /\ ctxDone ~> (server = "stopped")
    /\ [](last.kind = "Init" /\ last.done => last.action = "Shutdown")
    /\ [][ctxDone => ctxDone']_vars

C15_Witness ==
    /\ last.kind = "Tick"
    /\ last.done
    /\ last.action = "Shutdown"
    /\ server = "stopped"

\* C16: a buffer with a header terminator and a Content-Length header whose
\* value carries a sign is framed MALFORMED.
C16_SignedLengthIsMalformed ==
    (/\ Framed
     /\ HasLengthHeader(last.data)
     /\ LengthValue(last.data) # <<>>
     /\ LengthValue(last.data)[1] \in {"+", "-"})
        => last.verdict = "MALFORMED"

\* C17: once every byte of a request with Content-Length: N, N >= 0, and
\* exactly N body bytes has been delivered, the request has been framed
\* COMPLETE and dispatched.
C17_DeliveredRequestIsDispatched ==
    (/\ req \in WellFormedRequests
     /\ Index(req, contentLengthHeader) >= 0
     /\ pos = Len(req))
        => Framed /\ last.verdict = "COMPLETE" /\ last.dispatched

\* C18: the handler runs and response bytes are returned only by a
\* Readable callback whose verdict is COMPLETE; a Readable callback whose
\* verdict is INCOMPLETE returns no bytes and the no-op action, leaves the
\* connection open and stores the whole accumulated buffer.
C18_DispatchOnlyWhenComplete ==
    /\ (last.handled \/ last.out = "response")
          => last.kind = "Readable" /\ last.verdict = "COMPLETE"
    /\ (Framed /\ last.verdict = "INCOMPLETE")
          => /\ last.out = "nil"
             /\ last.action = "None"
             /\ ~last.handled
             /\ conn[last.conn] = "open"
             /\ stream[last.conn] = last.data

C18_Witness ==
    /\ Framed
    /\ last.verdict = "INCOMPLETE"
    /\ last.joined
    /\ Len(stream[1]) > Len(reqLine)
    /\ conn[1] = "open"

\* C19: a Readable callback on an empty chunk returns the no-op action and
\* no bytes and changes nothing of the reactor's state, whatever the buffer
\* holds and whether or not the shutdown signal is set.
C19_EmptyChunkIsNoOp ==
    [][\A c \in Conns : \A fail \in Fails :
          (React(<<>>, c, fail) \/ Data(c, <<>>, fail))
            => /\ last'.action = "None"
               /\ last'.out = "nil"
               /\ ~last'.handled
               /\ UNCHANGED <<backend, server, ctxDone, conn, stream,
                              delivered, fed, openedDone, served>>]_vars

C19_Witness ==
    /\ last.kind = "Readable"
    /\ last.verdict = "-"
    /\ last.done
    /\ conn[1] = "open"
    /\ stream[1] # <<>>

\* C20: on the same state and the same chunk the two backends' Readable
\* callbacks frame alike and return the same action and the same
\* presence of response bytes.
C20_BackendsAgree ==
    \A c \in Conns : \A in \in Chunks : \A fail \in Fails \ {"body"} :
        conn[c] = "open" =>
            /\ ReactOutcome(in, c, fail).verdict = DataOutcome(c, in, fail).verdict
            /\ ReactOutcome(in, c, fail).action = DataOutcome(c, in, fail).action
            /\ ReactOutcome(in, c, fail).out = DataOutcome(c, in, fail).out

====
